---- MODULE Spec2Model ----
(***************************************************************************)
(* career-cli: the interactive state machine of the job tracker.           *)
(*                                                                         *)
(* The state is the App struct of src/main.rs together with the position   *)
(* of run_app's loop and the key event it read last.  One action models    *)
(* one iteration of the loop that read a key event: the dispatch on the    *)
(* input mode and the key code, the App method it calls, and the           *)
(* should_quit test that ends the iteration.                               *)
(*                                                                         *)
(* Conventions                                                             *)
(*   - a String is a sequence of one-character strings;                    *)
(*   - an Option<usize> is a sequence of length at most one: <<>> is None  *)
(*     and <<i>> is Some(i); indices are 0-based as in the source, so the  *)
(*     record at index i is jobs[i + 1];                                   *)
(*   - EditTarget::New is <<>> and EditTarget::Existing(i) is <<i>>;       *)
(*   - usize arithmetic that can underflow (jobs.len() - 1) panics in a    *)
(*     build with overflow checks and wraps in a build without them; the   *)
(*     build is chosen in Init.                                            *)
(*   - ListState is modelled by its selected index only; rendering is      *)
(*     taken not to write it (the widget code is not part of src/).        *)
(*                                                                         *)
(* Three specifications:                                                   *)
(*   Spec        run_app from the state App::new leaves, terminal set up;  *)
(*   MainSpec    the whole of main: terminal setup, load_jobs, run_app     *)
(*               (shorter runs), terminal restoration, save_jobs, with     *)
(*               every fallible step free to fail;                         *)
(*   LayoutSpec  column_widths applied to every u16 width.                 *)
(***************************************************************************)
EXTENDS Integers, Sequences, FiniteSets, TLC

VARIABLES
    jobs,           \* App.jobs: Vec<Job>
    selected,       \* App.state.selected(): Option<usize>
    should_quit,    \* App.should_quit
    input_mode,     \* App.input_mode: "Normal" | "Editing"
    input_field,    \* App.input_field: "Company" | "Role" | "Link"
    input_buffer,   \* App.input_buffer
    temp_company,   \* App.temp_company
    temp_role,      \* App.temp_role
    edit_target,    \* App.edit_target
    key,            \* the key code read by the last iteration of run_app
    pc,             \* "loop" | "returned" | "panicked"
    build,          \* "debug" (overflow checks) | "release" (wrapping)
    nkeys,          \* number of key events handled so far
    raw_mode,       \* the terminal is in raw mode
    alt_screen,     \* the terminal shows the alternate screen
    res,            \* main's res, the result of run_app: "none" | "Ok" | "Err"
    saved,          \* the arguments of the calls of save_jobs, in order
    exit_code,      \* Option: the exit code of the process once main returned
    total_width,    \* the argument of column_widths
    widths          \* Option: the tuple column_widths returned

appvars == <<jobs, selected, should_quit, input_mode, input_field,
             input_buffer, temp_company, temp_role, edit_target>>

mainvars == <<raw_mode, alt_screen, res, saved, exit_code>>

layoutvars == <<total_width, widths>>

vars == <<jobs, selected, should_quit, input_mode, input_field,
          input_buffer, temp_company, temp_role, edit_target,
          key, pc, build, nkeys,
          raw_mode, alt_screen, res, saved, exit_code,
          total_width, widths>>

----------------------------------------------------------------------------
(* Bounds of the exploration *)

MaxKeys == 8        \* key events handled in one run (Spec)
MaxMainKeys == 4    \* key events handled in one run (MainSpec)
MaxBuf == 1         \* characters typed into the input buffer
MaxLoad == 2        \* records returned by load_jobs
MaxDate == 1        \* clock values Utc::now() can return
UsizeBits == 16     \* width of usize in the model

UsizeMax == 2 ^ UsizeBits - 1

\* the largest u16, the type of the width column_widths is given
U16Max == 2 ^ 16 - 1

\* Characters typed in Editing mode: 'q' and 'd' are command keys of Normal
\* mode, ' ' is whitespace.
TypedChars == {"q", "d", " "}

Dates == 0 .. MaxDate

----------------------------------------------------------------------------
(* Option<usize> and EditTarget *)

None == <<>>
Some(i) == <<i>>
IsSome(o) == Len(o) = 1
Unwrap(o) == o[1]

New == <<>>
Existing(i) == <<i>>

----------------------------------------------------------------------------
(* usize arithmetic *)

\* a - b on usize without overflow checks
wrapping_sub(a, b) == IF a >= b THEN a - b ELSE UsizeMax - (b - a) + 1

\* a.saturating_sub(b)
saturating_sub(a, b) == IF a >= b THEN a - b ELSE 0

\* a.max(b), a.min(b)
max(a, b) == IF a >= b THEN a ELSE b
min(a, b) == IF a <= b THEN a ELSE b

----------------------------------------------------------------------------
(* Strings *)

IsWhitespace(c) == c = " "

RECURSIVE trim_start(_)
trim_start(s) ==
    IF s = <<>> THEN <<>>
    ELSE IF IsWhitespace(Head(s)) THEN trim_start(Tail(s))
    ELSE s

RECURSIVE trim_end(_)
trim_end(s) ==
    IF s = <<>> THEN <<>>
    ELSE IF IsWhitespace(s[Len(s)]) THEN trim_end(SubSeq(s, 1, Len(s) - 1))
    ELSE s

\* trim that returns its argument
trim_identity(s) == s

\* str::trim
trim(s) == trim_end(trim_start(s))

\* String::pop: removes the last character, if any
pop(s) == IF s = <<>> THEN <<>> ELSE SubSeq(s, 1, Len(s) - 1)

----------------------------------------------------------------------------
(* models.rs *)

Status == {"Applied", "Interviewing", "Offer", "Rejected", "Ghosted"}

\* Status::next that stays at Offer
Status_next_stays_at_offer(s) ==
    CASE s = "Applied" -> "Interviewing"
      [] s = "Interviewing" -> "Offer"
      [] s = "Offer" -> "Offer"
      [] s = "Rejected" -> "Ghosted"
      [] s = "Ghosted" -> "Applied"

Status_next(s) ==
    CASE s = "Applied" -> "Interviewing"
      [] s = "Interviewing" -> "Offer"
      [] s = "Offer" -> "Rejected"
      [] s = "Rejected" -> "Ghosted"
      [] s = "Ghosted" -> "Applied"

\* Job::new with company and role exchanged
Job_new_swapped(id, company, role, post_link, now) ==
    [id |-> id,
     company |-> role,
     role |-> company,
     post_link |-> post_link,
     status |-> "Applied",
     notes |-> <<>>,
     date_applied |-> now]

\* Job::new; now is the value Utc::now() returns
Job_new(id, company, role, post_link, now) ==
    [id |-> id,
     company |-> company,
     role |-> role,
     post_link |-> post_link,
     status |-> "Applied",
     notes |-> <<>>,
     date_applied |-> now]

\* Job::cycle_status
cycle_status(job) == [job EXCEPT !.status = Status_next(job.status)]

----------------------------------------------------------------------------
(* storage.rs: the lists load_jobs can return (a sample of stored files) *)

LoadedJob(i) ==
    [id |-> i,
     company |-> IF i % 2 = 1 THEN <<"q">> ELSE <<"d">>,
     role |-> IF i % 2 = 1 THEN <<"d">> ELSE <<>>,
     post_link |-> CASE i % 3 = 1 -> <<"q", " ">>
                     [] i % 3 = 2 -> <<" ", "q">>
                     [] OTHER -> <<>>,
     status |-> "Applied",
     notes |-> <<>>,
     date_applied |-> 0]

load_jobs == { [i \in 1 .. n |-> LoadedJob(i)] : n \in 0 .. MaxLoad }

----------------------------------------------------------------------------
(* Vec<Job> *)

\* Vec::remove(i), i < len
remove(v, i) == SubSeq(v, 1, i) \o SubSeq(v, i + 2, Len(v))

is_empty(v) == Len(v) = 0

----------------------------------------------------------------------------
(* App *)

\* App::new(jobs), run with the list load_jobs returned
Init ==
    /\ jobs \in load_jobs
    /\ selected = IF ~is_empty(jobs) THEN Some(0) ELSE None
    /\ should_quit = FALSE
    /\ input_mode = "Normal"
    /\ input_field = "Company"
    /\ input_buffer = <<>>
    /\ temp_company = <<>>
    /\ temp_role = <<>>
    /\ edit_target = New
    /\ key = "none"
    /\ pc = "loop"
    /\ build \in {"debug", "release"}
    /\ nkeys = 0
    /\ raw_mode = TRUE
    /\ alt_screen = TRUE
    /\ res = "none"
    /\ saved = <<>>
    /\ exit_code = None
    /\ total_width = 0
    /\ widths = None

\* The App methods below say what a call does to the App; next_panics and
\* previous_panics say when the call panics instead, on jobs.len() - 1 with
\* an empty list in a build with overflow checks.

next_panics ==
    IsSome(selected) /\ Len(jobs) = 0 /\ build = "debug"

\* App::next: the index it selects, from the selection and jobs.len()
next_index(sel, len) ==
    IF IsSome(sel)
    THEN IF Unwrap(sel) >= wrapping_sub(len, 1)
         THEN 0
         ELSE Unwrap(sel) + 1
    ELSE 0

\* App::next
next ==
    LET i == next_index(selected, Len(jobs))
    IN  /\ selected' = Some(i)
        /\ UNCHANGED <<jobs, should_quit, input_mode, input_field,
                       input_buffer, temp_company, temp_role, edit_target>>

previous_panics ==
    IsSome(selected) /\ Unwrap(selected) = 0 /\ Len(jobs) = 0 /\ build = "debug"

\* App::previous
previous ==
    LET i == IF IsSome(selected)
             THEN IF Unwrap(selected) = 0
                  THEN wrapping_sub(Len(jobs), 1)
                  ELSE Unwrap(selected) - 1
             ELSE 0
    IN  /\ selected' = Some(i)
        /\ UNCHANGED <<jobs, should_quit, input_mode, input_field,
                       input_buffer, temp_company, temp_role, edit_target>>

\* reset_input that keeps the staged company
reset_input_keeps_company ==
    /\ input_buffer' = <<>>
    /\ temp_company' = temp_company
    /\ temp_role' = <<>>
    /\ edit_target' = New
    /\ input_mode' = "Normal"
    /\ input_field' = "Company"

\* reset_input that keeps the edit target
reset_input_keeps_target ==
    /\ input_buffer' = <<>>
    /\ temp_company' = <<>>
    /\ temp_role' = <<>>
    /\ edit_target' = edit_target
    /\ input_mode' = "Normal"
    /\ input_field' = "Company"

\* App::reset_input: the six fields it writes (it touches no other)
reset_input ==
    /\ input_buffer' = <<>>
    /\ temp_company' = <<>>
    /\ temp_role' = <<>>
    /\ edit_target' = New
    /\ input_mode' = "Normal"
    /\ input_field' = "Company"

\* submit_input that goes from Company straight to Link
submit_input_skips_role ==
    CASE input_field = "Company" ->
            /\ temp_company' = input_buffer
            /\ input_buffer' = <<>>
            /\ input_field' = "Link"
            /\ UNCHANGED <<jobs, selected, should_quit, input_mode,
                           temp_role, edit_target>>
      [] input_field = "Role" ->
            /\ temp_role' = input_buffer
            /\ input_buffer' = <<>>
            /\ input_field' = "Link"
            /\ UNCHANGED <<jobs, selected, should_quit, input_mode,
                           temp_company, edit_target>>
      [] input_field = "Link" ->
            LET post_link == trim(input_buffer) IN
            /\ IF edit_target = New
               THEN \E now \in Dates :
                        jobs' = Append(jobs,
                                       Job_new(Len(jobs) + 1, temp_company,
                                               temp_role, post_link, now))
               ELSE LET index == Unwrap(edit_target) IN
                    IF index < Len(jobs)
                    THEN jobs' = [jobs EXCEPT ![index + 1].post_link = post_link]
                    ELSE jobs' = jobs
            /\ reset_input
            /\ UNCHANGED <<selected, should_quit>>

\* App::submit_input
submit_input ==
    CASE input_field = "Company" ->
            /\ temp_company' = input_buffer
            /\ input_buffer' = <<>>
            /\ input_field' = "Role"
            /\ UNCHANGED <<jobs, selected, should_quit, input_mode,
                           temp_role, edit_target>>
      [] input_field = "Role" ->
            /\ temp_role' = input_buffer
            /\ input_buffer' = <<>>
            /\ input_field' = "Link"
            /\ UNCHANGED <<jobs, selected, should_quit, input_mode,
                           temp_company, edit_target>>
      [] input_field = "Link" ->
            LET post_link == trim(input_buffer) IN
            /\ IF edit_target = New
               THEN \E now \in Dates :
                        jobs' = Append(jobs,
                                       Job_new(Len(jobs) + 1, temp_company,
                                               temp_role, post_link, now))
               ELSE LET index == Unwrap(edit_target) IN
                    IF index < Len(jobs)
                    THEN jobs' = [jobs EXCEPT ![index + 1].post_link = post_link]
                    ELSE jobs' = jobs
            /\ reset_input
            /\ UNCHANGED <<selected, should_quit>>

\* App::start_add
start_add ==
    /\ input_mode' = "Editing"
    /\ input_field' = "Company"
    /\ edit_target' = New
    /\ input_buffer' = <<>>
    /\ UNCHANGED <<jobs, selected, should_quit, temp_company, temp_role>>

\* start_edit_link without the jobs.get(i) test
start_edit_link_unchecked ==
    IF IsSome(selected)
    THEN /\ input_mode' = "Editing"
         /\ input_field' = "Link"
         /\ edit_target' = Existing(Unwrap(selected))
         /\ input_buffer' = IF Unwrap(selected) < Len(jobs)
                            THEN jobs[Unwrap(selected) + 1].post_link
                            ELSE <<>>
         /\ UNCHANGED <<jobs, selected, should_quit, temp_company, temp_role>>
    ELSE UNCHANGED appvars

\* App::start_edit_link
start_edit_link ==
    IF IsSome(selected) /\ Unwrap(selected) < Len(jobs)
    THEN /\ input_mode' = "Editing"
         /\ input_field' = "Link"
         /\ edit_target' = Existing(Unwrap(selected))
         /\ input_buffer' = jobs[Unwrap(selected) + 1].post_link
         /\ UNCHANGED <<jobs, selected, should_quit, temp_company, temp_role>>
    ELSE UNCHANGED appvars

\* App::cycle_current_status
cycle_current_status ==
    IF IsSome(selected) /\ Unwrap(selected) < Len(jobs)
    THEN /\ jobs' = [jobs EXCEPT ![Unwrap(selected) + 1] = cycle_status(@)]
         /\ UNCHANGED <<selected, should_quit, input_mode, input_field,
                        input_buffer, temp_company, temp_role, edit_target>>
    ELSE UNCHANGED appvars

\* App::open_current_link: the opener's result is discarded
open_current_link == UNCHANGED appvars

\* App::delete_current_job
delete_current_job ==
    IF IsSome(selected) /\ Unwrap(selected) < Len(jobs)
    THEN LET i == Unwrap(selected)
             left == remove(jobs, i)
         IN  /\ jobs' = left
             /\ selected' = IF ~is_empty(left) /\ i >= Len(left)
                            THEN Some(Len(left) - 1)
                            ELSE IF is_empty(left) THEN None
                            ELSE selected
             /\ UNCHANGED <<should_quit, input_mode, input_field,
                            input_buffer, temp_company, temp_role, edit_target>>
    ELSE UNCHANGED appvars

----------------------------------------------------------------------------
(* run_app: one iteration of the loop that reads key event k *)

\* what ends the iteration: a panic of the handler unwinds out of run_app
\* and main and ends the process with code 101, should_quit makes run_app
\* return Ok(()), otherwise the loop goes round
Iteration(k, panics, handler) ==
    /\ pc = "loop"
    /\ nkeys < MaxKeys
    /\ key' = k
    /\ nkeys' = nkeys + 1
    /\ build' = build
    /\ UNCHANGED <<raw_mode, alt_screen, saved, layoutvars>>
    /\ IF panics
       THEN /\ pc' = "panicked"
            /\ exit_code' = Some(101)
            /\ UNCHANGED <<appvars, res>>
       ELSE /\ handler
            /\ pc' = IF should_quit' THEN "returned" ELSE "loop"
            /\ res' = IF should_quit' THEN "Ok" ELSE res
            /\ exit_code' = exit_code

NormalQuit ==
    /\ input_mode = "Normal"
    /\ Iteration("q", FALSE,
                 /\ should_quit' = TRUE
                 /\ UNCHANGED <<jobs, selected, input_mode, input_field,
                                input_buffer, temp_company, temp_role,
                                edit_target>>)

NormalDown == input_mode = "Normal" /\ Iteration("Down", next_panics, next)

NormalUp == input_mode = "Normal" /\ Iteration("Up", previous_panics, previous)

NormalAdd == input_mode = "Normal" /\ Iteration("a", FALSE, start_add)

NormalEdit == input_mode = "Normal" /\ Iteration("e", FALSE, start_edit_link)

NormalEnter ==
    input_mode = "Normal" /\ Iteration("Enter", FALSE, cycle_current_status)

NormalDelete ==
    input_mode = "Normal" /\ Iteration("d", FALSE, delete_current_job)

NormalOpen == input_mode = "Normal" /\ Iteration("o", FALSE, open_current_link)

NormalOther ==
    input_mode = "Normal" /\ Iteration("Other", FALSE, UNCHANGED appvars)

EditingEnter ==
    input_mode = "Editing" /\ Iteration("Enter", FALSE, submit_input)

EditingEsc ==
    /\ input_mode = "Editing"
    /\ Iteration("Esc", FALSE,
                 reset_input /\ UNCHANGED <<jobs, selected, should_quit>>)

EditingBackspace ==
    /\ input_mode = "Editing"
    /\ Iteration("Backspace", FALSE,
                 /\ input_buffer' = pop(input_buffer)
                 /\ UNCHANGED <<jobs, selected, should_quit, input_mode,
                                input_field, temp_company, temp_role,
                                edit_target>>)

\* Editing mode in which 'q' quits as it does in Normal mode
EditingChar_q_quits ==
    /\ input_mode = "Editing"
    /\ Len(input_buffer) < MaxBuf
    /\ \E c \in TypedChars :
          Iteration(c, FALSE,
                    /\ input_buffer' = Append(input_buffer, c)
                    /\ should_quit' = (c = "q")
                    /\ UNCHANGED <<jobs, selected, input_mode,
                                   input_field, temp_company, temp_role,
                                   edit_target>>)

EditingChar ==
    /\ input_mode = "Editing"
    /\ Len(input_buffer) < MaxBuf
    /\ \E c \in TypedChars :
          Iteration(c, FALSE,
                    /\ input_buffer' = Append(input_buffer, c)
                    /\ UNCHANGED <<jobs, selected, should_quit, input_mode,
                                   input_field, temp_company, temp_role,
                                   edit_target>>)

\* Editing mode in which Down and Up move the cursor
EditingOther_navigates ==
    /\ input_mode = "Editing"
    /\ \/ Iteration("Down", next_panics, next)
       \/ Iteration("Up", previous_panics, previous)
       \/ Iteration("Other", FALSE, UNCHANGED appvars)

EditingOther ==
    /\ input_mode = "Editing"
    /\ \E k \in {"Down", "Up", "Other"} :
          Iteration(k, FALSE, UNCHANGED appvars)

run_app ==
    \/ NormalQuit
    \/ NormalDown
    \/ NormalUp
    \/ NormalAdd
    \/ NormalEdit
    \/ NormalEnter
    \/ NormalDelete
    \/ NormalOpen
    \/ NormalOther
    \/ EditingEnter
    \/ EditingEsc
    \/ EditingBackspace
    \/ EditingChar
    \/ EditingOther

Next == run_app

Spec == Init /\ [][Next]_vars

----------------------------------------------------------------------------
(* main: setup, load, run_app, restoration, save.  Each step that main     *)
(* ends with `?` either succeeds or makes main return the error, which     *)
(* ends the process with code 1.                                           *)

\* main returns: Ok(()) is exit code 0, Err is exit code 1
Exit(code) ==
    /\ pc' = "exited"
    /\ exit_code' = Some(code)

\* the state before main has run: no App yet (its fields are given the
\* values App::new gives them for an empty list)
MainInit ==
    /\ jobs = <<>>
    /\ selected = None
    /\ should_quit = FALSE
    /\ input_mode = "Normal"
    /\ input_field = "Company"
    /\ input_buffer = <<>>
    /\ temp_company = <<>>
    /\ temp_role = <<>>
    /\ edit_target = New
    /\ key = "none"
    /\ pc = "enable_raw_mode"
    /\ build \in {"debug", "release"}
    /\ nkeys = 0
    /\ raw_mode = FALSE
    /\ alt_screen = FALSE
    /\ res = "none"
    /\ saved = <<>>
    /\ exit_code = None
    /\ total_width = 0
    /\ widths = None

\* enable_raw_mode()?
enable_raw_mode ==
    /\ pc = "enable_raw_mode"
    /\ \E ok \in BOOLEAN :
          IF ok
          THEN /\ raw_mode' = TRUE
               /\ pc' = "enter_alternate_screen"
               /\ exit_code' = exit_code
          ELSE /\ raw_mode' = raw_mode
               /\ Exit(1)
    /\ UNCHANGED <<appvars, key, build, nkeys, alt_screen, res, saved,
                   layoutvars>>

\* execute!(stdout, EnterAlternateScreen)?
enter_alternate_screen ==
    /\ pc = "enter_alternate_screen"
    /\ \E ok \in BOOLEAN :
          IF ok
          THEN /\ alt_screen' = TRUE
               /\ pc' = "terminal_new"
               /\ exit_code' = exit_code
          ELSE /\ alt_screen' = alt_screen
               /\ Exit(1)
    /\ UNCHANGED <<appvars, key, build, nkeys, raw_mode, res, saved,
                   layoutvars>>

\* Terminal::new(backend)?
terminal_new ==
    /\ pc = "terminal_new"
    /\ \E ok \in BOOLEAN :
          IF ok
          THEN pc' = "load_jobs" /\ exit_code' = exit_code
          ELSE Exit(1)
    /\ UNCHANGED <<appvars, key, build, nkeys, raw_mode, alt_screen, res,
                   saved, layoutvars>>

\* let jobs = load_jobs()?; let mut app = App::new(jobs);
main_load ==
    /\ pc = "load_jobs"
    /\ \/ /\ Exit(1)
          /\ UNCHANGED appvars
       \/ /\ jobs' \in load_jobs
          /\ selected' = IF ~is_empty(jobs') THEN Some(0) ELSE None
          /\ should_quit' = FALSE
          /\ input_mode' = "Normal"
          /\ input_field' = "Company"
          /\ input_buffer' = <<>>
          /\ temp_company' = <<>>
          /\ temp_role' = <<>>
          /\ edit_target' = New
          /\ pc' = "loop"
          /\ exit_code' = exit_code
    /\ UNCHANGED <<key, build, nkeys, raw_mode, alt_screen, res, saved,
                   layoutvars>>

\* run_app returns Err: terminal.draw, event::poll or event::read failed
run_app_error ==
    /\ pc = "loop"
    /\ pc' = "returned"
    /\ res' = "Err"
    /\ UNCHANGED <<appvars, key, build, nkeys, raw_mode, alt_screen, saved,
                   exit_code, layoutvars>>

\* disable_raw_mode()?
disable_raw_mode ==
    /\ pc = "returned"
    /\ \E ok \in BOOLEAN :
          IF ok
          THEN /\ raw_mode' = FALSE
               /\ pc' = "leave_alternate_screen"
               /\ exit_code' = exit_code
          ELSE /\ raw_mode' = raw_mode
               /\ Exit(1)
    /\ UNCHANGED <<appvars, key, build, nkeys, alt_screen, res, saved,
                   layoutvars>>

\* execute!(terminal.backend_mut(), LeaveAlternateScreen)?
leave_alternate_screen ==
    /\ pc = "leave_alternate_screen"
    /\ \E ok \in BOOLEAN :
          IF ok
          THEN /\ alt_screen' = FALSE
               /\ pc' = "show_cursor"
               /\ exit_code' = exit_code
          ELSE /\ alt_screen' = alt_screen
               /\ Exit(1)
    /\ UNCHANGED <<appvars, key, build, nkeys, raw_mode, res, saved,
                   layoutvars>>

\* terminal.show_cursor()?
show_cursor ==
    /\ pc = "show_cursor"
    /\ \E ok \in BOOLEAN :
          IF ok
          THEN pc' = "finish" /\ exit_code' = exit_code
          ELSE Exit(1)
    /\ UNCHANGED <<appvars, key, build, nkeys, raw_mode, alt_screen, res,
                   saved, layoutvars>>

\* main_finish that saves whatever run_app returned
main_finish_saves_always ==
    /\ pc = "finish"
    /\ saved' = Append(saved, jobs)
    /\ \E ok \in BOOLEAN : Exit(IF ok THEN 0 ELSE 1)
    /\ UNCHANGED <<appvars, key, build, nkeys, raw_mode, alt_screen, res,
                   layoutvars>>

\* main_finish that returns the error of run_app
main_finish_returns_err ==
    /\ pc = "finish"
    /\ IF res = "Err"
       THEN /\ saved' = saved
            /\ Exit(1)
       ELSE /\ saved' = Append(saved, jobs)
            /\ \E ok \in BOOLEAN : Exit(IF ok THEN 0 ELSE 1)
    /\ UNCHANGED <<appvars, key, build, nkeys, raw_mode, alt_screen, res,
                   layoutvars>>

\* if let Err(err) = res { println!(..) } else { save_jobs(&app.jobs)?; }
\* Ok(())
main_finish ==
    /\ pc = "finish"
    /\ IF res = "Err"
       THEN /\ saved' = saved
            /\ Exit(0)
       ELSE /\ saved' = Append(saved, jobs)
            /\ \E ok \in BOOLEAN : Exit(IF ok THEN 0 ELSE 1)
    /\ UNCHANGED <<appvars, key, build, nkeys, raw_mode, alt_screen, res,
                   layoutvars>>

MainNext ==
    \/ enable_raw_mode
    \/ enter_alternate_screen
    \/ terminal_new
    \/ main_load
    \/ nkeys < MaxMainKeys /\ run_app
    \/ run_app_error
    \/ disable_raw_mode
    \/ leave_alternate_screen
    \/ show_cursor
    \/ main_finish

MainSpec == MainInit /\ [][MainNext]_vars

----------------------------------------------------------------------------
(* Layout: column_widths, called by ui for every row it formats *)

\* column_widths that takes the narrow branch at the minimum total too
column_widths_narrow_at_minimum(width) ==
    LET highlight == 3
        separators == 9
        leading == 1
        content_width == saturating_sub(width, highlight + separators + leading)
        min_company == 10
        min_role == 10
        min_link == 14
        min_status == 10
        min_total == min_company + min_role + min_link + min_status
    IN
    IF content_width = 0 THEN <<0, 0, 0, 0>>
    ELSE IF content_width <= min_total THEN
        LET weights == <<3, 3, 4, 2>>
            weight_sum == weights[1] + weights[2] + weights[3] + weights[4]
            company0 == (content_width * weights[1]) \div weight_sum
            role0 == (content_width * weights[2]) \div weight_sum
            link0 == (content_width * weights[3]) \div weight_sum
            status0 == saturating_sub(content_width, company0 + role0 + link0)
            company == max(company0, 3)
            role == max(role0, 3)
            link1 == max(link0, 3)
            status == max(status0, 3)
            total == company + role + link1 + status
            link == IF total > content_width
                    THEN LET overflow == total - content_width
                             reduce == min(overflow, saturating_sub(link1, 3))
                         IN  saturating_sub(link1, reduce)
                    ELSE link1
        IN  <<company, role, link, status>>
    ELSE
        LET extra == content_width - min_total
            company == min_company + ((extra * 3) \div 10)
            role == min_role + ((extra * 3) \div 10)
            link0 == min_link + ((extra * 3) \div 10)
            status0 == saturating_sub(content_width, company + role + link0)
            deficit == min_status - status0
            take == min(deficit, saturating_sub(link0, min_link))
            link == IF status0 < min_status
                    THEN saturating_sub(link0, take)
                    ELSE link0
            status == IF status0 < min_status
                      THEN saturating_sub(content_width, company + role + link)
                      ELSE status0
        IN  <<company, role, link, status>>

\* column_widths that removes the whole excess from the link column
column_widths_unfloored_shave(width) ==
    LET highlight == 3
        separators == 9
        leading == 1
        content_width == saturating_sub(width, highlight + separators + leading)
        min_company == 10
        min_role == 10
        min_link == 14
        min_status == 10
        min_total == min_company + min_role + min_link + min_status
    IN
    IF content_width = 0 THEN <<0, 0, 0, 0>>
    ELSE IF content_width < min_total THEN
        LET weights == <<3, 3, 4, 2>>
            weight_sum == weights[1] + weights[2] + weights[3] + weights[4]
            company0 == (content_width * weights[1]) \div weight_sum
            role0 == (content_width * weights[2]) \div weight_sum
            link0 == (content_width * weights[3]) \div weight_sum
            status0 == saturating_sub(content_width, company0 + role0 + link0)
            company == max(company0, 3)
            role == max(role0, 3)
            link1 == max(link0, 3)
            status == max(status0, 3)
            total == company + role + link1 + status
            link == IF total > content_width
                    THEN LET overflow == total - content_width
                             reduce == overflow
                         IN  saturating_sub(link1, reduce)
                    ELSE link1
        IN  <<company, role, link, status>>
    ELSE
        LET extra == content_width - min_total
            company == min_company + ((extra * 3) \div 10)
            role == min_role + ((extra * 3) \div 10)
            link0 == min_link + ((extra * 3) \div 10)
            status0 == saturating_sub(content_width, company + role + link0)
            deficit == min_status - status0
            take == min(deficit, saturating_sub(link0, min_link))
            link == IF status0 < min_status
                    THEN saturating_sub(link0, take)
                    ELSE link0
            status == IF status0 < min_status
                      THEN saturating_sub(content_width, company + role + link)
                      ELSE status0
        IN  <<company, role, link, status>>

\* column_widths that leaves the leading space out of the overhead
column_widths_forgets_leading(width) ==
    LET highlight == 3
        separators == 9
        leading == 1
        content_width == saturating_sub(width, highlight + separators)
        min_company == 10
        min_role == 10
        min_link == 14
        min_status == 10
        min_total == min_company + min_role + min_link + min_status
    IN
    IF content_width = 0 THEN <<0, 0, 0, 0>>
    ELSE IF content_width < min_total THEN
        LET weights == <<3, 3, 4, 2>>
            weight_sum == weights[1] + weights[2] + weights[3] + weights[4]
            company0 == (content_width * weights[1]) \div weight_sum
            role0 == (content_width * weights[2]) \div weight_sum
            link0 == (content_width * weights[3]) \div weight_sum
            status0 == saturating_sub(content_width, company0 + role0 + link0)
            company == max(company0, 3)
            role == max(role0, 3)
            link1 == max(link0, 3)
            status == max(status0, 3)
            total == company + role + link1 + status
            link == IF total > content_width
                    THEN LET overflow == total - content_width
                             reduce == min(overflow, saturating_sub(link1, 3))
                         IN  saturating_sub(link1, reduce)
                    ELSE link1
        IN  <<company, role, link, status>>
    ELSE
        LET extra == content_width - min_total
            company == min_company + ((extra * 3) \div 10)
            role == min_role + ((extra * 3) \div 10)
            link0 == min_link + ((extra * 3) \div 10)
            status0 == saturating_sub(content_width, company + role + link0)
            deficit == min_status - status0
            take == min(deficit, saturating_sub(link0, min_link))
            link == IF status0 < min_status
                    THEN saturating_sub(link0, take)
                    ELSE link0
            status == IF status0 < min_status
                      THEN saturating_sub(content_width, company + role + link)
                      ELSE status0
        IN  <<company, role, link, status>>

\* column_widths(total_width) -> (company, role, link, status)
column_widths(width) ==
    LET highlight == 3
        separators == 9
        leading == 1
        content_width == saturating_sub(width, highlight + separators + leading)
        min_company == 10
        min_role == 10
        min_link == 14
        min_status == 10
        min_total == min_company + min_role + min_link + min_status
    IN
    IF content_width = 0 THEN <<0, 0, 0, 0>>
    ELSE IF content_width < min_total THEN
        LET weights == <<3, 3, 4, 2>>
            weight_sum == weights[1] + weights[2] + weights[3] + weights[4]
            company0 == (content_width * weights[1]) \div weight_sum
            role0 == (content_width * weights[2]) \div weight_sum
            link0 == (content_width * weights[3]) \div weight_sum
            status0 == saturating_sub(content_width, company0 + role0 + link0)
            company == max(company0, 3)
            role == max(role0, 3)
            link1 == max(link0, 3)
            status == max(status0, 3)
            total == company + role + link1 + status
            link == IF total > content_width
                    THEN LET overflow == total - content_width
                             reduce == min(overflow, saturating_sub(link1, 3))
                         IN  saturating_sub(link1, reduce)
                    ELSE link1
        IN  <<company, role, link, status>>
    ELSE
        LET extra == content_width - min_total
            company == min_company + ((extra * 3) \div 10)
            role == min_role + ((extra * 3) \div 10)
            link0 == min_link + ((extra * 3) \div 10)
            status0 == saturating_sub(content_width, company + role + link0)
            deficit == min_status - status0
            take == min(deficit, saturating_sub(link0, min_link))
            link == IF status0 < min_status
                    THEN saturating_sub(link0, take)
                    ELSE link0
            status == IF status0 < min_status
                      THEN saturating_sub(content_width, company + role + link)
                      ELSE status0
        IN  <<company, role, link, status>>

\* no call of column_widths yet, for any width a u16 holds
LayoutInit ==
    /\ total_width \in 0 .. U16Max
    /\ widths = None
    /\ jobs = <<>>
    /\ selected = None
    /\ should_quit = FALSE
    /\ input_mode = "Normal"
    /\ input_field = "Company"
    /\ input_buffer = <<>>
    /\ temp_company = <<>>
    /\ temp_role = <<>>
    /\ edit_target = New
    /\ key = "none"
    /\ pc = "layout"
    /\ build = "release"
    /\ nkeys = 0
    /\ raw_mode = TRUE
    /\ alt_screen = TRUE
    /\ res = "none"
    /\ saved = <<>>
    /\ exit_code = None

\* let (company_width, role_width, link_width, status_width) =
\*     column_widths(chunks[0].width);
call_column_widths ==
    /\ pc = "layout"
    /\ widths = None
    /\ widths' = Some(column_widths(total_width))
    /\ UNCHANGED <<appvars, key, pc, build, nkeys, mainvars, total_width>>

LayoutNext == call_column_widths

LayoutSpec == LayoutInit /\ [][LayoutNext]_vars

----------------------------------------------------------------------------
(* Properties *)

Min(a, b) == IF a <= b THEN a ELSE b

Spaces(n) == [k \in 1 .. n |-> " "]

\* t is s without its leading and trailing whitespace
IsTrimOf(t, s) ==
    /\ t # <<>> => ~IsWhitespace(t[1]) /\ ~IsWhitespace(t[Len(t)])
    /\ \E a \in 0 .. Len(s), b \in 0 .. Len(s) : s = Spaces(a) \o t \o Spaces(b)

\* the records of v other than the one at 0-based index i are those of w
OthersUnchanged(v, w, i) ==
    /\ Len(v) = Len(w)
    /\ \A j \in 1 .. Len(v) : j # i + 1 => v[j] = w[j]

\* C1: in every reachable state the selection index, when present, is
\* strictly less than the length of the job sequence.
C1_SelectionInBounds ==
    IsSome(selected) => Unwrap(selected) < Len(jobs)

\* C2: in every reachable state the selection cursor is None if and only
\* if the job sequence is empty.
C2_NoneIffEmpty ==
    (selected = None) <=> is_empty(jobs)

\* C3: with an empty job sequence, select_next and select_previous (Down
\* and Up in Normal mode) leave the whole App unchanged, the cursor
\* unselected, and do not panic.
C3_NavigationOnEmptyIsNoOp ==
    [][(input_mode = "Normal" /\ is_empty(jobs) /\ key' \in {"Down", "Up"})
         => /\ appvars' = appvars
            /\ selected' = None
            /\ pc' # "panicked"]_vars

\* C4: delete_selected ('d' in Normal mode) with cursor i present removes
\* exactly the record at index i, keeps the others in order, and leaves
\* the cursor at min(i, new_len - 1), or unselected if the sequence became
\* empty.
C4_DeleteRemovesSelected ==
    [][(input_mode = "Normal" /\ key' = "d" /\ IsSome(selected))
         => LET i == Unwrap(selected) IN
            /\ Len(jobs') = Len(jobs) - 1
            /\ \A j \in 1 .. Len(jobs') :
                  jobs'[j] = IF j <= i THEN jobs[j] ELSE jobs[j + 1]
            /\ selected' = IF is_empty(jobs') THEN None
                           ELSE Some(Min(i, Len(jobs') - 1))]_vars

\* C5: completing the Add sequence (begin_add, then submit_field for
\* Company, Role and Link with buffers c, r, l) appends exactly one record
\* at the end, with company = c, role = r, post_link = trim(l), status
\* Applied, empty notes and id = previous length + 1; the records that
\* were there and the selection cursor are unchanged.  Stated step by
\* step: begin_add starts at Company with an empty buffer; each submit
\* stages the buffer it is given; no other key of the sequence changes
\* what is staged, the list or the cursor; the last submit appends the
\* record made of what was staged.
C5_Adding == input_mode = "Editing" /\ edit_target = New

C5_AddAppendsOneRecord ==
    [][/\ (input_mode = "Normal" /\ key' = "a")
            => /\ input_mode' = "Editing" /\ input_field' = "Company"
               /\ edit_target' = New /\ input_buffer' = <<>>
               /\ jobs' = jobs /\ selected' = selected
       /\ (C5_Adding /\ key' = "Enter" /\ input_field = "Company")
            => /\ temp_company' = input_buffer
               /\ input_mode' = "Editing" /\ input_field' = "Role"
               /\ edit_target' = New
               /\ jobs' = jobs /\ selected' = selected
       /\ (C5_Adding /\ key' = "Enter" /\ input_field = "Role")
            => /\ temp_company' = temp_company
               /\ temp_role' = input_buffer
               /\ input_mode' = "Editing" /\ input_field' = "Link"
               /\ edit_target' = New
               /\ jobs' = jobs /\ selected' = selected
       /\ (C5_Adding /\ key' \notin {"Enter", "Esc"})
            => UNCHANGED <<jobs, selected, temp_company, temp_role,
                           input_mode, input_field, edit_target>>
       /\ (C5_Adding /\ key' = "Enter" /\ input_field = "Link")
            => /\ Len(jobs') = Len(jobs) + 1
               /\ \A j \in 1 .. Len(jobs) : jobs'[j] = jobs[j]
               /\ LET r == jobs'[Len(jobs')] IN
                    /\ r.id = Len(jobs) + 1
                    /\ r.company = temp_company
                    /\ r.role = temp_role
                    /\ IsTrimOf(r.post_link, input_buffer)
                    /\ r.status = "Applied"
                    /\ r.notes = <<>>
               /\ selected' = selected
               /\ input_mode' = "Normal"]_vars

\* an Add of company "d", role "q", link " " on top of two loaded records
C5_Witness ==
    /\ key = "Enter" /\ input_mode = "Normal"
    /\ Len(jobs) = 3
    /\ jobs[1] = LoadedJob(1) /\ jobs[2] = LoadedJob(2)
    /\ jobs[3] = [id |-> 3, company |-> <<"d">>, role |-> <<"q">>,
                  post_link |-> <<>>, status |-> "Applied", notes |-> <<>>,
                  date_applied |-> 1]
    /\ selected = Some(0)

\* C6: begin_edit_link on the selected record i, text entry, then
\* submit_field change only the post_link of record i, to the trimmed
\* buffer; its other fields, every other record, the length and the cursor
\* are unchanged.
C6_Patching == input_mode = "Editing" /\ edit_target # New

C6_EditLinkChangesOnlyLink ==
    [][/\ (/\ input_mode = "Normal" /\ key' = "e"
           /\ IsSome(selected) /\ Unwrap(selected) < Len(jobs))
            => /\ input_mode' = "Editing" /\ input_field' = "Link"
               /\ edit_target' = Existing(Unwrap(selected))
               /\ input_buffer' = jobs[Unwrap(selected) + 1].post_link
               /\ jobs' = jobs /\ selected' = selected
       /\ (C6_Patching /\ key' \notin {"Enter", "Esc"})
            => UNCHANGED <<jobs, selected, input_mode, input_field,
                           edit_target>>
       /\ (C6_Patching /\ key' = "Enter")
            => LET i == Unwrap(edit_target) IN
               /\ i < Len(jobs)
               /\ OthersUnchanged(jobs', jobs, i)
               /\ LET old == jobs[i + 1]
                      new == jobs'[i + 1]
                  IN  /\ IsTrimOf(new.post_link, input_buffer)
                      /\ new.id = old.id
                      /\ new.company = old.company
                      /\ new.role = old.role
                      /\ new.status = old.status
                      /\ new.notes = old.notes
                      /\ new.date_applied = old.date_applied
               /\ selected' = selected
               /\ input_mode' = "Normal"]_vars

\* the first loaded record, its status cycled once, then its link "q "
\* replaced by "d": Enter, e, Backspace, Backspace, d, Enter
C6_Witness ==
    /\ key = "Enter" /\ input_mode = "Normal" /\ nkeys = 6
    /\ Len(jobs) = 2
    /\ jobs[1] = [LoadedJob(1) EXCEPT !.status = "Interviewing",
                                      !.post_link = <<"d">>]
    /\ jobs[2] = LoadedJob(2)
    /\ selected = Some(0)

\* C7: cancel_edit (Esc) at any point of an Add or a link edit leaves the
\* job sequence as it was before begin_add / begin_edit_link, returns to
\* Normal with an empty buffer and nothing staged, and a later Add starts
\* with nothing staged.
C7_CancelDiscards ==
    [][/\ (input_mode = "Normal" /\ key' \in {"a", "e"})
            => /\ jobs' = jobs
               /\ (key' = "a" => /\ input_buffer' = <<>>
                                 /\ temp_company' = <<>>
                                 /\ temp_role' = <<>>)
       /\ (input_mode = "Editing" /\ input_mode' = "Editing")
            => jobs' = jobs
       /\ (input_mode = "Editing" /\ key' = "Esc")
            => /\ jobs' = jobs /\ selected' = selected
               /\ input_mode' = "Normal"
               /\ input_buffer' = <<>>
               /\ temp_company' = <<>> /\ temp_role' = <<>>
               /\ edit_target' = New /\ input_field' = "Company"
               /\ pc' = "loop"]_vars

\* Esc after at least a, c, Enter, r, Enter, l: an Add cancelled at Link
C7_Witness ==
    /\ key = "Esc" /\ input_mode = "Normal" /\ nkeys >= 6
    /\ jobs \in load_jobs /\ Len(jobs) = 2
    /\ input_buffer = <<>> /\ temp_company = <<>> /\ temp_role = <<>>

\* C8: while the input mode is Editing, no key event changes the job
\* sequence except submit_field on the Link field, and none changes the
\* cursor; Down, Up, 'd' and 'q' are not run as commands.
C8_EditingFreezesList ==
    [][input_mode = "Editing"
         => /\ selected' = selected
            /\ should_quit' = should_quit
            /\ (key' = "Enter" /\ input_field = "Link") \/ jobs' = jobs
            /\ key' \in {"Down", "Up"} => appvars' = appvars
            /\ key' \in {"d", "q"}
                 => /\ input_buffer' = Append(input_buffer, key')
                    /\ jobs' = jobs]_vars

\* 'd' typed while the link of a selected record is edited
C8_Witness ==
    /\ input_mode = "Editing" /\ key = "d"
    /\ input_buffer = <<"d">>
    /\ IsSome(selected) /\ Unwrap(selected) < Len(jobs)
    /\ jobs \in load_jobs

\* C9: whenever the input mode is Editing with target Existing(i), i is a
\* valid index, it is the index selected when begin_edit_link ran, and the
\* list has not changed since.
C9_TargetNotStale ==
    [][(input_mode' = "Editing" /\ edit_target' # New)
         => /\ Unwrap(edit_target') < Len(jobs')
            /\ selected' = Some(Unwrap(edit_target'))
            /\ input_field' = "Link"
            /\ jobs' = jobs
            /\ IF input_mode = "Editing"
               THEN edit_target' = edit_target
               ELSE key' = "e" /\ edit_target' = selected]_vars

\* editing the link of the second record, a character typed
C9_Witness ==
    /\ input_mode = "Editing" /\ edit_target = Existing(1)
    /\ key = "q" /\ Len(jobs) = 2

\* C10: should_quit is set, and the run loop returns, only from Normal
\* mode on 'q'; in Editing mode 'q' is appended to the input buffer.
C10_QuitOnlyFromNormal ==
    [][/\ (should_quit' # should_quit \/ pc' = "returned")
            => /\ input_mode = "Normal" /\ key' = "q"
               /\ should_quit' /\ pc' = "returned"
       /\ (input_mode = "Editing" /\ key' = "q")
            => /\ input_buffer' = Append(input_buffer, "q")
               /\ ~should_quit' /\ pc' = "loop"]_vars

\* 'q' typed as the company of an Add
C10_Witness ==
    /\ input_mode = "Editing" /\ input_field = "Company" /\ key = "q"
    /\ input_buffer = <<"q">> /\ ~should_quit /\ pc = "loop"

\* C11: once raw mode or the alternate screen has been entered, the
\* terminal restoration runs on every path on which the process ends: a
\* process that ends with the terminal still in raw mode or on the
\* alternate screen is one whose restoration ran and failed, which it can
\* only after run_app returned.
C11_RestorationOnEveryExit ==
    (pc \in {"exited", "panicked"} /\ (raw_mode \/ alt_screen))
        => res # "none"

\* C12 as claimed: save is called at most once; a run that ended by user
\* quit has called it exactly once, with the final job sequence and after
\* the terminal was restored; a run whose loop failed or that never
\* reached the loop has not called it.
C12_SaveExactlyOnceOnQuit ==
    /\ Len(saved) <= 1
    /\ (pc = "exited" /\ res = "Ok")
         => saved = <<jobs>> /\ ~raw_mode /\ ~alt_screen
    /\ (pc \in {"exited", "panicked"} /\ res # "Ok") => saved = <<>>

\* C12 as amended: save is called at most once; it is called exactly once,
\* with the final job sequence, when the run loop ended by user quit and
\* the three restoration steps succeeded (pc = "finish"), and only then.
C12_SaveOnceAfterRestoration ==
    [][/\ saved' # saved
            => /\ pc = "finish" /\ res = "Ok"
               /\ ~raw_mode /\ ~alt_screen
               /\ saved = <<>> /\ saved' = <<jobs>>
       /\ (pc = "finish" /\ res = "Ok") => saved' = <<jobs>>
       /\ (pc = "returned" /\ pc' = "exited") => saved' = <<>>]_vars

\* a list changed in the session, saved after the restoration
C12_Witness ==
    /\ pc = "exited" /\ res = "Ok" /\ exit_code = Some(0)
    /\ saved = <<jobs>> /\ jobs \notin load_jobs
    /\ ~raw_mode /\ ~alt_screen

\* C18 as claimed: the exit code is 0 on normal quit, and non-zero only if
\* terminal setup fails before the run loop starts.
C18_NonZeroOnlyOnSetupFailure ==
    [][/\ (pc' = "exited" /\ res = "Ok") => exit_code' = Some(0)
       /\ (exit_code' # None /\ exit_code' # Some(0))
            => pc \in {"enable_raw_mode", "enter_alternate_screen",
                       "terminal_new"}]_vars

\* C18 as amended: main returns 0 only from its last step, after the
\* restoration succeeded: always when run_app returned an error, and on a
\* quit unless save_jobs fails; it returns 1 when a step ending in `?`
\* fails: terminal setup, load_jobs, a restoration step, save_jobs; a
\* panic of the run loop ends the process with code 101.
C18_ExitCodes ==
    [][/\ exit_code' = Some(0)
            => pc = "finish" /\ pc' = "exited" /\ ~raw_mode /\ ~alt_screen
       /\ (pc = "finish" /\ res = "Err") => exit_code' = Some(0)
       /\ exit_code' = Some(1)
            => /\ pc' = "exited"
               /\ \/ pc \in {"enable_raw_mode", "enter_alternate_screen",
                             "terminal_new", "load_jobs"}
                  \/ pc \in {"returned", "leave_alternate_screen",
                             "show_cursor"}
                  \/ pc = "finish" /\ res = "Ok" /\ saved' = <<jobs>>
       /\ exit_code' = Some(101) <=> pc' = "panicked"
       /\ pc' = "exited" => exit_code' \in {Some(0), Some(1)}]_vars

\* a run loop that failed, reported after the restoration, exit code 0
C18_Witness ==
    /\ pc = "exited" /\ res = "Err" /\ exit_code = Some(0)
    /\ ~raw_mode /\ ~alt_screen /\ saved = <<>>

\* C13: every record's id is a positive integer and no two records of the
\* sequence share an id.
C13_IdsUnique ==
    \A j, k \in 1 .. Len(jobs) :
        /\ jobs[j].id > 0
        /\ j # k => jobs[j].id # jobs[k].id

RECURSIVE NextTimes(_, _, _)
\* the selection after n calls of App::next on a list of length len
NextTimes(sel, len, n) ==
    IF n = 0 THEN sel ELSE NextTimes(Some(next_index(sel, len)), len, n - 1)

\* C14: from any reachable state in Normal mode, select_next applied len
\* times, len the length of the sequence, returns the cursor to where it
\* was, an unselected cursor and an empty sequence included.
C14_NextIsCyclic ==
    (pc = "loop" /\ input_mode = "Normal")
        => NextTimes(selected, Len(jobs), Len(jobs)) = selected

\* the status cycle as the data model states it
StatusCycle == <<"Applied", "Interviewing", "Offer", "Rejected", "Ghosted">>

StatusAfter(st) ==
    LET k == CHOOSE n \in 1 .. Len(StatusCycle) : StatusCycle[n] = st
    IN  StatusCycle[(k % Len(StatusCycle)) + 1]

RECURSIVE CycleTimes(_, _)
\* the record after n calls of Job::cycle_status
CycleTimes(job, n) ==
    IF n = 0 THEN job ELSE CycleTimes(cycle_status(job), n - 1)

\* C15: cycle_status (Enter in Normal mode) on a selected record advances
\* the status of that record by one step of the cycle and changes nothing
\* else; five of them bring the record back to the status it had.
C15_CycleStatus ==
    [][(/\ input_mode = "Normal" /\ key' = "Enter"
        /\ IsSome(selected) /\ Unwrap(selected) < Len(jobs))
         => LET i == Unwrap(selected)
                old == jobs[i + 1]
                new == jobs'[i + 1]
            IN  /\ OthersUnchanged(jobs', jobs, i)
                /\ new.status = StatusAfter(old.status)
                /\ new = [old EXCEPT !.status = new.status]
                /\ CycleTimes(old, Len(StatusCycle)) = old
                /\ CycleTimes(old, 1) = new
                /\ UNCHANGED <<selected, should_quit, input_mode,
                               input_field, input_buffer, temp_company,
                               temp_role, edit_target>>]_vars

\* Enter five times on the first of two loaded records
C15_Witness ==
    /\ key = "Enter" /\ input_mode = "Normal" /\ nkeys = 5
    /\ Len(jobs) = 2 /\ jobs \in load_jobs
    /\ selected = Some(0)

\* C19: field capture is ordered.  After begin_add the field goes Company,
\* Role, Link, each submit_field moving one step and clearing the buffer,
\* the third returning to Normal; after begin_edit_link the field is Link
\* with target Existing, and the one submit_field returns to Normal
\* without appending a record.  No other key moves the field.
C19_FieldOrder ==
    [][/\ (input_mode = "Normal" /\ input_mode' = "Editing")
            => \/ /\ key' = "a" /\ input_field' = "Company"
                  /\ edit_target' = New
               \/ /\ key' = "e" /\ input_field' = "Link"
                  /\ edit_target' # New
       /\ (input_mode = "Editing" /\ key' = "Enter")
            => /\ input_buffer' = <<>>
               /\ CASE input_field = "Company"
                         -> /\ input_mode' = "Editing"
                            /\ input_field' = "Role"
                    [] input_field = "Role"
                         -> /\ input_mode' = "Editing"
                            /\ input_field' = "Link"
                    [] input_field = "Link"
                         -> /\ input_mode' = "Normal"
                            /\ Len(jobs') =
                                 Len(jobs) + IF edit_target = New THEN 1 ELSE 0
       /\ (input_mode = "Editing" /\ key' \notin {"Enter", "Esc"})
            => /\ input_mode' = "Editing"
               /\ input_field' = input_field
       /\ (input_mode = "Editing" /\ edit_target # New)
            => input_field = "Link"
       /\ (input_mode = "Editing" /\ input_field # "Link")
            => edit_target = New]_vars

\* an Add at its third field: company and role staged, Link being typed
C19_Witness ==
    /\ input_mode = "Editing" /\ input_field = "Link" /\ edit_target = New
    /\ temp_company = <<"q">> /\ temp_role = <<"d">>
    /\ key = "Enter" /\ input_buffer = <<>>

\* C20: in every reachable state whose input mode is Normal, the input
\* buffer and the staged company and role are empty, the edit target is
\* New and the field cursor is Company.
C20_NormalIsClean ==
    input_mode = "Normal"
        => /\ input_buffer = <<>>
           /\ temp_company = <<>>
           /\ temp_role = <<>>
           /\ edit_target = New
           /\ input_field = "Company"

\* back in Normal after a link edit of the second record was submitted
C20_Witness ==
    /\ input_mode = "Normal" /\ key = "Enter"
    /\ Len(jobs) = 2 /\ jobs[1] = LoadedJob(1)
    /\ jobs[2] = [LoadedJob(2) EXCEPT !.post_link = <<"q">>]
    /\ selected = Some(1)

\* the width left for the four columns: the total less the 13 columns of
\* the highlight symbol, the separators and the leading space
ContentWidth == IF total_width >= 13 THEN total_width - 13 ELSE 0

\* C16: for every total width whose content width is at least 44, the
\* least included and the largest u16 included, company >= 10, role >= 10,
\* link >= 14, status >= 10 and the four widths plus 13 make the total.
C16_WideColumns ==
    (IsSome(widths) /\ ContentWidth >= 44)
        => LET w == Unwrap(widths) IN
           /\ w[1] >= 10 /\ w[2] >= 10 /\ w[3] >= 14 /\ w[4] >= 10
           /\ w[1] + w[2] + w[3] + w[4] + 13 = total_width

\* the width whose content width is exactly the minimum total
C16_Witness ==
    total_width = 57 /\ widths = Some(<<10, 10, 14, 10>>)

\* C17: for every total width whose content width is between 1 and 43 the
\* columns are the 3:3:4:2 split of the content width (company, role and
\* link the whole part of their share, status the rest, no less than its
\* share), each floored at 3; when the floored sum exceeds the content
\* width the excess comes off the link column only, which stays at 3 or
\* more.  For content width zero the four widths are 0.
C17_NarrowColumns ==
    IsSome(widths)
        => LET w == Unwrap(widths)
               cw == ContentWidth
               a == (3 * cw) \div 12
               b == (3 * cw) \div 12
               c == (4 * cw) \div 12
               d == cw - (a + b + c)
               fa == IF a < 3 THEN 3 ELSE a
               fb == IF b < 3 THEN 3 ELSE b
               fc == IF c < 3 THEN 3 ELSE c
               fd == IF d < 3 THEN 3 ELSE d
               excess == IF fa + fb + fc + fd > cw
                         THEN fa + fb + fc + fd - cw ELSE 0
           IN  /\ cw = 0 => w = <<0, 0, 0, 0>>
               /\ (1 <= cw /\ cw <= 43)
                    => /\ 12 * d >= 2 * cw
                       /\ w[1] = fa /\ w[2] = fb /\ w[4] = fd
                       /\ w[3] = IF fc - excess < 3 THEN 3 ELSE fc - excess
                       /\ w[3] >= 3

\* content width 12: shares 3, 3, 4 and 2, status floored to 3, the excess
\* of 1 taken off the link column
C17_Witness ==
    total_width = 25 /\ widths = Some(<<3, 3, 3, 3>>)

\* the sum of the four widths column_widths returned
WidthsSum == LET w == Unwrap(widths) IN w[1] + w[2] + w[3] + w[4]

\* C21 as claimed: for every total width from 0 to 65535 the four widths
\* sum to at most the content width.
C21_SumWithinContentWidth ==
    IsSome(widths) => WidthsSum <= ContentWidth

\* C21 as amended: the four widths sum to at most the content width for
\* every total width whose content width is 0 or at least 12; for content
\* widths 1 to 11 every column is held at its floor of 3 or more, and the
\* sum, 12 or 13, exceeds the content width.
C21_SumWithinContentWidthFrom12 ==
    IsSome(widths)
        => /\ (ContentWidth = 0 \/ ContentWidth >= 12)
                => WidthsSum <= ContentWidth
           /\ (1 <= ContentWidth /\ ContentWidth <= 11)
                => /\ \A k \in 1 .. 4 : Unwrap(widths)[k] >= 3
                   /\ WidthsSum \in {12, 13}
                   /\ WidthsSum > ContentWidth

\* content width 13: the columns fill it exactly
C21_Witness ==
    total_width = 26 /\ widths = Some(<<3, 3, 4, 3>>)

====
